---------------------------- MODULE Spec2Model ----------------------------
(***************************************************************************)
(* A model of wallet.py, the household ledger: the console prompts         *)
(* (input_date, input_category, input_amount), the ledger held in          *)
(* `transactions`, its CSV persistence (save_to_csv, load_from_csv), the   *)
(* per-category aggregation of plot_graph, the spreadsheet export and the  *)
(* menu loop.                                                              *)
(*                                                                         *)
(* Text is a sequence of one-character strings.  The Japanese words of the *)
(* source are written as single ASCII tokens: Hizuke, Kategori, Kingaku    *)
(* are the three field names, Shokuhi, Kotsuhi, Nichiyohin, Shumi/Kosaihi  *)
(* and Sonota the five category labels.                                    *)
(*                                                                         *)
(* Python numbers are modelled exactly.  An int is a sign and a decimal    *)
(* magnitude of any length; a float is an IEEE binary64 value, a sign with *)
(* an odd mantissa below 2^53 and a binary exponent, or inf, or nan.       *)
(***************************************************************************)
EXTENDS Integers, Sequences, FiniteSets, TLC

VARIABLES
    pc,            \* where the process is: "menu", "date", "category", "amount", "done", "crashed"
    transactions,  \* the global list `transactions`
    file,          \* wallet_data.csv: whether it exists, and its lines
    xlsx,          \* wallet_data.xlsx: whether it exists, and the rows of its sheet
    date,          \* add_transaction's local `date` (<<>> outside add_transaction)
    category,      \* add_transaction's local `category` (<<>> outside add_transaction)
    last,          \* the prompt answered by the latest input() and the text it returned
    out,           \* what the latest step showed on the console or the chart window
    loaded,        \* what load_from_csv returned when this run started
    exited,        \* the ledger the previous run held when its process ended
    run            \* the number of the running process

vars == <<pc, transactions, file, xlsx, date, category, last, out, loaded, exited, run>>

None == "None"

NoFile == [exists |-> FALSE, lines |-> <<>>]

FileOf(lines) == [exists |-> TRUE, lines |-> lines]

(***************************************************************************)
(* Sequences and text.                                                     *)
(***************************************************************************)
Range(s) == {s[i] : i \in 1..Len(s)}

Front(s) == SubSeq(s, 1, Len(s) - 1)

Last(s) == s[Len(s)]

IsPrefix(s, t) == Len(s) <= Len(t) /\ SubSeq(t, 1, Len(s)) = s

DigitChars == <<"0", "1", "2", "3", "4", "5", "6", "7", "8", "9">>

IsDigit(c) == c \in Range(DigitChars)

DigitVal(c) == (CHOOSE i \in 1..10 : DigitChars[i] = c) - 1

AllDigits(t) == \A i \in 1..Len(t) : IsDigit(t[i])

\* str.strip(): leading and trailing blanks removed.
RECURSIVE strip(_)
strip(t) ==
    IF t = <<>> THEN t
    ELSE IF Head(t) = " " THEN strip(Tail(t))
    ELSE IF Last(t) = " " THEN strip(Front(t))
    ELSE t

(***************************************************************************)
(* Magnitudes: a natural number as its decimal digits, most significant    *)
(* first, without leading zeros; zero is <<0>>.                            *)
(***************************************************************************)
\* F of the value of x, with x computed once.
With(x, F(_)) == CHOOSE r \in {F(v) : v \in {x}} : TRUE

\* The first n values of f as a tuple.
Tuple(f, n) == SubSeq(f, 1, n)

Zeros(n) == IF n <= 0 THEN <<>> ELSE Tuple([i \in 1..n |-> 0], n)

IsZero(ds) == \A i \in 1..Len(ds) : ds[i] = 0

IsOdd(ds) == ds # <<>> /\ Last(ds) % 2 = 1

Norm(ds) ==
    IF IsZero(ds) THEN <<0>>
    ELSE SubSeq(ds, CHOOSE i \in 1..Len(ds) : ds[i] # 0 /\ \A j \in 1..(i - 1) : ds[j] = 0,
                Len(ds))

Less(a, b) ==
    \/ Len(a) < Len(b)
    \/ /\ Len(a) = Len(b)
       /\ \E i \in 1..Len(a) : a[i] < b[i] /\ \A j \in 1..(i - 1) : a[j] = b[j]

\* ds with zeros in front, n digits long.
Pad(ds, n) == Zeros(n - Len(ds)) \o ds

\* ds + 1: the digits after the last one that is not 9 wrap to 0.
Inc(ds) ==
    Norm(Tuple([k \in 1..(Len(ds) + 1) |->
                  IF \A j \in k..Len(ds) : ds[j] = 9
                  THEN ((IF k = 1 THEN 0 ELSE ds[k - 1]) + 1) % 10
                  ELSE (IF k = 1 THEN 0 ELSE ds[k - 1])], Len(ds) + 1))

\* x + y for x and y of the same length n: a digit receives a carry when a
\* later column sums to 10 or more and every column between sums to 9.
AddPadded(x, y, n) ==
    Norm(Tuple([i \in 1..n |->
                  (x[i] + y[i]
                     + (IF \E j \in (i + 1)..n :
                              /\ x[j] + y[j] >= 10
                              /\ \A k \in (i + 1)..(j - 1) : x[k] + y[k] = 9
                        THEN 1 ELSE 0)) % 10], n))

Add(a, b) == AddPadded(<<0>> \o Pad(a, Len(b)), <<0>> \o Pad(b, Len(a)),
                       1 + (IF Len(a) > Len(b) THEN Len(a) ELSE Len(b)))

\* x - y for x >= y of the same length n: a digit lends when a later column
\* is short and every column between is level.
SubPadded(x, y, n) ==
    Norm(Tuple([i \in 1..n |->
                  (x[i] - y[i] + 10
                     - (IF \E j \in (i + 1)..n :
                              /\ x[j] < y[j]
                              /\ \A k \in (i + 1)..(j - 1) : x[k] = y[k]
                        THEN 1 ELSE 0)) % 10], n))

\* a - b for a >= b.
Sub(a, b) == SubPadded(a, Pad(b, Len(a)), Len(a))

\* The machine integer of a few digits.
RECURSIVE ToNat(_)
ToNat(ds) == IF ds = <<>> THEN 0 ELSE 10 * ToNat(Front(ds)) + Last(ds)

\* The digits of a machine integer.
RECURSIVE NatDigits(_)
NatDigits(n) == IF n = 0 THEN <<>> ELSE NatDigits(n \div 10) \o <<n % 10>>

\* ds * m + carry for a small m, by long multiplication from the last digit.
RECURSIVE MulSmallR(_, _, _)
MulSmallR(ds, m, carry) ==
    IF ds = <<>> THEN NatDigits(carry)
    ELSE MulSmallR(Front(ds), m, (Last(ds) * m + carry) \div 10)
             \o <<(Last(ds) * m + carry) % 10>>

MulSmall(ds, m) == With(MulSmallR(ds, m, 0), Norm)

\* ds \div m for a small m, by long division from the first digit.
RECURSIVE DivSmallR(_, _, _)
DivSmallR(ds, m, rem) ==
    IF ds = <<>> THEN <<>>
    ELSE <<(rem * 10 + Head(ds)) \div m>> \o DivSmallR(Tail(ds), m, (rem * 10 + Head(ds)) % m)

DivSmall(ds, m) == With(DivSmallR(ds, m, 0), Norm)

\* ds * 2^k and ds \div 2^k, twenty bits at a time.
RECURSIVE MulPow2(_, _)
MulPow2(ds, k) ==
    IF k <= 0 THEN ds
    ELSE With(MulSmall(ds, 2^(IF k < 20 THEN k ELSE 20)), LAMBDA d : MulPow2(d, k - 20))

RECURSIVE DivPow2(_, _)
DivPow2(ds, k) ==
    IF k <= 0 THEN ds
    ELSE With(DivSmall(ds, 2^(IF k < 20 THEN k ELSE 20)), LAMBDA d : DivPow2(d, k - 20))

Pow2(k) == MulPow2(<<1>>, k)

\* The number of times 2 divides ds, counted up to n <= 9: 2^j divides
\* 10^9, so the last nine digits decide.
LowZeroBits(ds, n) ==
    With(ToNat(SubSeq(ds, IF Len(ds) > 9 THEN Len(ds) - 8 ELSE 1, Len(ds))),
         LAMBDA low : Cardinality({j \in 1..n : low % (2^j) = 0}))

\* The number of times 2 divides ds, counted up to limit, nine bits at a time.
RECURSIVE TrailingZeroBits(_, _)
TrailingZeroBits(ds, limit) ==
    IF limit <= 0 \/ IsZero(ds) THEN 0
    ELSE With(LowZeroBits(ds, IF limit < 9 THEN limit ELSE 9),
              LAMBDA c : IF c < 9 THEN c
                         ELSE With(DivSmall(ds, 512),
                                   LAMBDA h : 9 + TrailingZeroBits(h, limit - 9)))

\* The number of bits of ds: 0 for zero, else b with 2^(b-1) <= ds < 2^b.
\* A number of n digits is at least 10^(n-1) >= 2^(3(n-1)) and less than
\* 10^n < 2^(10n/3 + 1), so only the powers between are compared.
BitsAbove(ds, low) ==
    Cardinality({b \in low..((10 * Len(ds)) \div 3 + 1) : With(Pow2(b), LAMBDA p : ~Less(ds, p))})

BitLength(ds) ==
    IF IsZero(ds) THEN 0 ELSE 3 * (Len(ds) - 1) + BitsAbove(ds, 3 * (Len(ds) - 1))

(***************************************************************************)
(* Python numbers.  Every value has the same shape:                        *)
(*   t    "int" or "float"                                                 *)
(*   cls  "fin", "inf" or "nan" (an int is always "fin")                   *)
(*   neg  the sign                                                         *)
(*   man  a magnitude                                                      *)
(*   exp  a binary exponent                                                *)
(* and denotes (-1)^neg * man * 2^exp with exp <= 0.  An integral value    *)
(* has exp = 0 and its magnitude as man; any other has an odd man.  The    *)
(* finite floats are the values of this form with at most MantBits         *)
(* significant bits: the binary64 values between the underflow and the     *)
(* overflow thresholds, which no text of the model comes near.             *)
(***************************************************************************)
MantBits == 53

PyIntOf(neg, m) ==
    [t |-> "int", cls |-> "fin", neg |-> neg /\ m # <<0>>, man |-> m, exp |-> 0]

PyInt(neg, mag) == With(Norm(mag), LAMBDA m : PyIntOf(neg, m))

PyFloat(neg, man, exp) ==
    [t |-> "float", cls |-> "fin", neg |-> neg, man |-> man, exp |-> exp]

PyInf(neg) == [t |-> "float", cls |-> "inf", neg |-> neg, man |-> <<0>>, exp |-> 0]

PyNan == [t |-> "float", cls |-> "nan", neg |-> FALSE, man |-> <<0>>, exp |-> 0]

Raised(exc) == [exc |-> exc, val |-> None]

Returned(v) == [exc |-> None, val |-> v]

\* The one form of m * 2^exp: an integral value has exp = 0, any other an odd
\* mantissa; t is the number of factors of two of m that exp can take.
CanonicalBy(neg, m, exp, t) ==
    IF exp >= 0 THEN PyFloat(neg, MulPow2(m, exp), 0)
    ELSE PyFloat(neg, DivPow2(m, t), IF IsZero(m) THEN 0 ELSE exp + t)

Canonical(neg, m, exp) ==
    With(TrailingZeroBits(m, 0 - exp), LAMBDA t : CanonicalBy(neg, m, exp, t))

\* Round to nearest, ties to even: q is the kept mantissa, above and tie
\* say whether the dropped part is more than, or exactly, half a unit of q.
RoundNearestEven(q, above, tie) ==
    IF above \/ (tie /\ IsOdd(q)) THEN Inc(q) ELSE q

\* m with its last t bits dropped and rounded; r is the dropped part and
\* half is half a unit of the kept mantissa.
DropBitsBy(q, r, half, sticky) ==
    RoundNearestEven(q, Less(half, r) \/ (r = half /\ sticky), r = half /\ ~sticky)

DropBits(m, t, sticky) ==
    With(DivPow2(m, t),
         LAMBDA q : With(<<Sub(m, MulPow2(q, t)), Pow2(t - 1)>>,
                         LAMBDA rh : DropBitsBy(q, rh[1], rh[2], sticky)))

\* The binary64 value nearest to m * 2^exp (and a little more, if sticky):
\* a mantissa of more than MantBits bits loses its low bits.
RoundScaledBy(neg, m, exp, sticky, b) ==
    IF b <= MantBits THEN Canonical(neg, m, exp)
    ELSE With(DropBits(m, b - MantBits, sticky),
              LAMBDA q : Canonical(neg, q, exp + (b - MantBits)))

RoundScaled(neg, m, exp, sticky) ==
    With(BitLength(m), LAMBDA b : RoundScaledBy(neg, m, exp, sticky, b))

\* 10^k
Unit(k) == <<1>> \o Zeros(k)

\* For 0 < 0.frac < 1 and k = Len(frac): the b <= 0 with 2^(b-1) <= 0.frac < 2^b,
\* which is minus the number of z >= 1 with frac * 2^z < 10^k.  With n zeros
\* after the point, 0.frac < 10^(-n) <= 2^(-3n), so every z up to 3n counts,
\* and 0.frac >= 10^(-n-1) > 2^(-(10(n+1)/3 + 1)), so none above that does.
FractionBitsAfter(f, k, n) ==
    0 - (3 * n + Cardinality({z \in (3 * n + 1)..((10 * (n + 1)) \div 3 + 1) :
                                 With(MulPow2(f, z), LAMBDA p : Less(p, Unit(k)))}))

FractionBits(frac, k) ==
    With(Norm(frac), LAMBDA f : FractionBitsAfter(f, k, k - Len(f)))

\* The mantissa of p / 10^k, p padded to more than k digits: p without its
\* last k digits, rounded by them; twice is two times those digits.
KeepDigitsBy(q, twice, unit) == RoundNearestEven(q, Less(unit, twice), twice = unit)

KeepDigits(p, k) ==
    With(<<Norm(SubSeq(p, 1, Len(p) - k)), MulSmall(SubSeq(p, Len(p) - k + 1, Len(p)), 2)>>,
         LAMBDA qt : KeepDigitsBy(qt[1], qt[2], Unit(k)))

\* The binary64 value nearest to int.frac for int < 2^MantBits and frac # 0:
\* the mantissa is the first MantBits bits of the value, which is
\* (int frac) * 2^s / 10^k for the s that makes them MantBits bits.
RoundFractionBy(neg, int, frac, k, s) ==
    With(Pad(MulPow2(Norm(int \o frac), s), k + 1),
         LAMBDA p : With(KeepDigits(p, k), LAMBDA q : Canonical(neg, q, 0 - s)))

RoundFraction(neg, int, frac) ==
    With(IF IsZero(int) THEN FractionBits(frac, Len(frac)) ELSE BitLength(int),
         LAMBDA b : RoundFractionBy(neg, int, frac, Len(frac), MantBits - b))

\* The binary64 value nearest to (-1)^neg * (int.frac), int and frac decimal digits.
NearestDoubleOf(neg, int, frac, b) ==
    IF ~IsZero(frac) /\ b <= MantBits THEN RoundFraction(neg, int, frac)
    ELSE RoundScaledBy(neg, int, 0, ~IsZero(frac), b)

NearestDouble(neg, int, frac) ==
    With(Norm(int), LAMBDA i : With(BitLength(i), LAMBDA b : NearestDoubleOf(neg, i, frac, b)))

Digits(t) == Tuple([i \in 1..Len(t) |-> DigitVal(t[i])], Len(t))

\* The first position of t holding a character of cs, or 0.
FirstOf(t, cs) ==
    IF \E i \in 1..Len(t) : t[i] \in cs
    THEN CHOOSE i \in 1..Len(t) : t[i] \in cs /\ \A j \in 1..(i - 1) : t[j] \notin cs
    ELSE 0

\* t before and after position p; all of t before, if p = 0.
SplitAt(t, p) ==
    [found  |-> p # 0,
     before |-> IF p = 0 THEN t ELSE SubSeq(t, 1, p - 1),
     after  |-> IF p = 0 THEN <<>> ELSE SubSeq(t, p + 1, Len(t))]

SplitOn(t, cs) == With(FirstOf(t, cs), LAMBDA p : SplitAt(t, p))

\* An optional sign and what follows it.
Signed(t) ==
    [neg  |-> t # <<>> /\ Head(t) = "-",
     body |-> IF t # <<>> /\ Head(t) \in {"+", "-"} THEN Tail(t) ELSE t]

\* int.frac * 10^e as a pair of digit strings.
ShiftLeft(int, frac, e) ==
    [int |-> int \o SubSeq(frac \o Zeros(e - Len(frac)), 1, e),
     frac |-> SubSeq(frac, e + 1, Len(frac))]

ShiftRight(int, frac, e) ==
    [int |-> SubSeq(int, 1, Len(int) - e),
     frac |-> SubSeq(int, Len(int) - e + 1, Len(int)) \o frac]

ShiftPoint(int, frac, e) ==
    IF e >= 0 THEN ShiftLeft(int, frac, e)
    ELSE With(Pad(int, 0 - e), LAMBDA p : ShiftRight(p, frac, 0 - e))

\* A decimal numeral: digits with an optional point, then an optional
\* exponent (whose sign and digits are ex).
NumeralOf(neg, int, frac, hasExp, ex) ==
    IF /\ AllDigits(int) /\ AllDigits(frac) /\ Len(int) + Len(frac) > 0
       /\ hasExp => (ex.body # <<>> /\ AllDigits(ex.body))
    THEN With(ShiftPoint(Digits(int), Digits(frac),
                         (IF ex.neg THEN -1 ELSE 1) * ToNat(Digits(ex.body))),
              LAMBDA sh : Returned(NearestDouble(neg, sh.int, sh.frac)))
    ELSE Raised("ValueError")

Numeral(neg, body) ==
    With(SplitOn(body, {"e", "E"}),
         LAMBDA me : With(<<SplitOn(me.before, {"."}), Signed(me.after)>>,
                          LAMBDA m : NumeralOf(neg, m[1].before, m[1].after, me.found, m[2])))

\* float(text): blanks stripped, an optional sign, then inf, infinity, nan or a
\* decimal numeral.
float_of_signed(neg, body) ==
    IF body \in {<<"i", "n", "f">>, <<"i", "n", "f", "i", "n", "i", "t", "y">>}
    THEN Returned(PyInf(neg))
    ELSE IF body = <<"n", "a", "n">> THEN Returned(PyNan)
    ELSE Numeral(neg, body)

float_of_str(text) ==
    With(Signed(strip(text)), LAMBDA s : float_of_signed(s.neg, s.body))

\* The integer part of a finite value's magnitude.
IntegerPart(v) == DivPow2(v.man, 0 - v.exp)

IsIntegral(v) == v.cls = "fin" /\ v.exp = 0

\* int(x) of a float: truncation toward zero; inf and nan have no integer value.
int_of_float(v) ==
    IF v.cls = "inf" THEN Raised("OverflowError")
    ELSE IF v.cls = "nan" THEN Raised("ValueError")
    ELSE Returned(PyInt(v.neg, IntegerPart(v)))

\* int(text): blanks stripped, an optional sign, then decimal digits.
int_of_signed(neg, body) ==
    IF body # <<>> /\ AllDigits(body) THEN Returned(PyInt(neg, Digits(body)))
    ELSE Raised("ValueError")

int_of_str(text) ==
    With(Signed(strip(text)), LAMBDA s : int_of_signed(s.neg, s.body))

\* float(x) of a number: an int is rounded to the nearest binary64 value.
float_of_num(v) ==
    IF v.t = "float" THEN v ELSE RoundScaled(v.neg, v.man, 0, FALSE)

\* x + y of two finite floats whose magnitudes are x and y units of 2^e.
float_add_aligned(xneg, x, yneg, y, e) ==
    RoundScaled(IF xneg = yneg THEN xneg
                ELSE IF Less(x, y) THEN yneg
                ELSE IF Less(y, x) THEN xneg
                ELSE FALSE,
                IF xneg = yneg THEN Add(x, y)
                ELSE IF Less(x, y) THEN Sub(y, x)
                ELSE Sub(x, y),
                e, FALSE)

\* x + y of two floats.
float_add(a, b) ==
    IF a.cls = "nan" \/ b.cls = "nan" THEN PyNan
    ELSE IF a.cls = "inf" /\ b.cls = "inf" THEN (IF a.neg = b.neg THEN a ELSE PyNan)
    ELSE IF a.cls = "inf" THEN a
    ELSE IF b.cls = "inf" THEN b
    ELSE With(IF a.exp < b.exp THEN a.exp ELSE b.exp,
              LAMBDA e : With(<<MulPow2(a.man, a.exp - e), MulPow2(b.man, b.exp - e)>>,
                              LAMBDA xy : float_add_aligned(a.neg, xy[1], b.neg, xy[2], e)))

\* The decimal text of a magnitude.
DigitText(ds) == Tuple([i \in 1..Len(ds) |-> DigitChars[ds[i] + 1]], Len(ds))

\* repr of a float prints an integral value below 10^16 in positional
\* notation with ".0"; the other floats (fractions, exponent notation) never
\* occur in a ledger of the model (AmountsPrintable) and print as "?".
ReprMaxDigits == 16

str_of_num(v) ==
    (IF v.neg THEN <<"-">> ELSE <<>>)
        \o (IF v.t = "int" THEN DigitText(v.man)
            ELSE IF v.cls = "inf" THEN <<"i", "n", "f">>
            ELSE IF v.cls = "nan" THEN <<"n", "a", "n">>
            ELSE IF IsIntegral(v) /\ Len(v.man) <= ReprMaxDigits
                 THEN DigitText(v.man) \o <<".", "0">>
            ELSE <<"?">>)

\* x == y of two finite numbers, whatever their types.
NumEq(a, b) ==
    /\ a.cls = "fin" /\ b.cls = "fin"
    /\ a.man = b.man /\ a.exp = b.exp
    /\ (a.neg = b.neg \/ IsZero(a.man))

(***************************************************************************)
(* input_date: datetime.strptime(date, "%Y/%m/%d").  The format compiles   *)
(* to the pattern  \d\d\d\d / (1[0-2]|0[1-9]|[1-9]) /                      *)
(* (3[01]|[12]\d|0[1-9]|[1-9]| [1-9]), matched at the start of the text;   *)
(* text left after the match, or a day the month does not have, is a       *)
(* ValueError.                                                             *)
(***************************************************************************)
At(t, i) == IF i \in 1..Len(t) THEN t[i] ELSE ""

OneToNine == {"1", "2", "3", "4", "5", "6", "7", "8", "9"}

\* The length of the text the month group matches at p, followed by "/"; 0 if none.
MonthLen(t, p) ==
    IF /\ \/ At(t, p) = "1" /\ At(t, p + 1) \in {"0", "1", "2"}
          \/ At(t, p) = "0" /\ At(t, p + 1) \in OneToNine
       /\ At(t, p + 2) = "/"
    THEN 2
    ELSE IF At(t, p) \in OneToNine /\ At(t, p + 1) = "/" THEN 1
    ELSE 0

\* The length of the text the day group matches at p: the first alternative
\* that matches; 0 if none.
DayLen(t, p) ==
    IF At(t, p) = "3" /\ At(t, p + 1) \in {"0", "1"} THEN 2
    ELSE IF At(t, p) \in {"1", "2"} /\ IsDigit(At(t, p + 1)) THEN 2
    ELSE IF At(t, p) = "0" /\ At(t, p + 1) \in OneToNine THEN 2
    ELSE IF At(t, p) \in OneToNine THEN 1
    ELSE IF At(t, p) = " " /\ At(t, p + 1) \in OneToNine THEN 2
    ELSE 0

is_leap(year) == year % 4 = 0 /\ (year % 100 # 0 \/ year % 400 = 0)

days_in_month(year, month) ==
    IF month = 2 /\ is_leap(year) THEN 29
    ELSE <<31, 28, 31, 30, 31, 30, 31, 31, 30, 31, 30, 31>>[month]

\* datetime(year, month, day): year 0 and a day the month does not have are ValueErrors.
datetime(year, month, day) ==
    IF year < 1 \/ day > days_in_month(year, month) THEN Raised("ValueError")
    ELSE Returned([year |-> year, month |-> month, day |-> day])

\* The groups matched: the month is mLen characters at 6, the day dLen after the next "/".
strptime_groups(text, mLen, dLen) ==
    IF mLen = 0 \/ dLen = 0 THEN Raised("ValueError")                \* does not match format
    ELSE IF 6 + mLen + dLen # Len(text) THEN Raised("ValueError")    \* unconverted data remains
    ELSE datetime(ToNat(Digits(SubSeq(text, 1, 4))),
                  ToNat(Digits(SubSeq(text, 6, 5 + mLen))),
                  ToNat(Digits(strip(SubSeq(text, 7 + mLen, 6 + mLen + dLen)))))

strptime_month(text, mLen) ==
    With(DayLen(text, 7 + mLen), LAMBDA dLen : strptime_groups(text, mLen, dLen))

strptime(text) ==
    IF Len(text) >= 5 /\ AllDigits(SubSeq(text, 1, 4)) /\ text[5] = "/"
    THEN With(MonthLen(text, 6), LAMBDA mLen : strptime_month(text, mLen))
    ELSE Raised("ValueError")

(***************************************************************************)
(* add_transaction's categories and input_category's selection.            *)
(***************************************************************************)
categories ==
    <<<<"Shokuhi">>, <<"Kotsuhi">>, <<"Nichiyohin">>, <<"Shumi", "/", "Kosaihi">>, <<"Sonota">>>>

\* A Python int as a machine integer; a magnitude of ten digits or more,
\* which no index is near, counts as 10^9.
SmallInt(v) ==
    (IF v.neg THEN -1 ELSE 1) * (IF Len(v.man) <= 9 THEN ToNat(v.man) ELSE 1000000000)

\* category_index = int(input(...)) - 1
category_index(v) == SmallInt(v) - 1

\* The test without its lower bound, which the selection's property must
\* tell from the code's.
index_valid_no_lower(idx) == idx < Len(categories)

\* if 0 <= category_index < len(categories)
index_valid(idx) == 0 <= idx /\ idx < Len(categories)

\* list[idx]: Python counts a negative index from the end.
subscript(list, idx) ==
    IF idx >= 0 /\ idx < Len(list) THEN list[idx + 1]
    ELSE IF idx < 0 /\ 0 - idx <= Len(list) THEN list[Len(list) + idx + 1]
    ELSE None

(***************************************************************************)
(* The CSV file: a sequence of lines, a line the fields joined by ",".     *)
(* csv quotes a field that holds a comma, a quote or a line break; no      *)
(* field of a ledger does (FieldsPlain), so the writer's quoting and the   *)
(* reader's unquoting never act and are left out.                          *)
(***************************************************************************)
fieldnames == <<<<"Hizuke">>, <<"Kategori">>, <<"Kingaku">>>>

Transaction(d, c, a) == [Hizuke |-> d, Kategori |-> c, Kingaku |-> a]

RECURSIVE Join(_)
Join(fields) ==
    IF Len(fields) = 0 THEN <<>>
    ELSE IF Len(fields) = 1 THEN fields[1]
    ELSE fields[1] \o <<",">> \o Join(Tail(fields))

RECURSIVE Split(_)
Split(line) ==
    With(FirstOf(line, {","}),
         LAMBDA p : IF p = 0 THEN <<line>>
                    ELSE <<SubSeq(line, 1, p - 1)>> \o Split(SubSeq(line, p + 1, Len(line))))

\* The row's values in another order than the header's names, which the
\* round trip must tell from the code's.
csv_row_by_key(row) == Join(<<row.Hizuke, str_of_num(row.Kingaku), row.Kategori>>)

\* DictWriter.writerow: the row's values in the order of fieldnames, as str() prints them.
csv_row(row) == Join(<<row.Hizuke, row.Kategori, str_of_num(row.Kingaku)>>)

\* The lines save_to_csv writes: the header, then every row.
csv_lines(transaction_list) ==
    <<Join(fieldnames)>>
        \o Tuple([i \in 1..Len(transaction_list) |-> csv_row(transaction_list[i])],
                 Len(transaction_list))

\* The file opened with mode "a" instead, which the file's property must
\* tell from the code's.
save_to_csv_append(transaction_list, old) ==
    FileOf(old.lines \o csv_lines(transaction_list))

\* save_to_csv: the file is opened with mode "w", so what it held (old) is dropped.
save_to_csv(transaction_list, old) == FileOf(csv_lines(transaction_list))

\* DictReader: the column of the header named key, or 0.
Column(header, key) ==
    IF \E i \in 1..Len(header) : header[i] = key
    THEN CHOOSE i \in 1..Len(header) : header[i] = key /\ \A j \in 1..(i - 1) : header[j] # key
    ELSE 0

\* DictReader: a field the line is too short for is None; here the empty text.
Field(fields, c) == IF c > Len(fields) THEN <<>> ELSE fields[c]

\* One row of load_from_csv's list: row["Hizuke"], row["Kategori"], float(row["Kingaku"]).
load_amount(fields, cols, amount) ==
    IF amount.exc # None THEN amount
    ELSE Returned(Transaction(Field(fields, cols[1]), Field(fields, cols[2]), amount.val))

load_fields(fields, cols) ==
    IF \E k \in 1..3 : cols[k] = 0 THEN Raised("KeyError")
    ELSE IF cols[3] > Len(fields) THEN Raised("TypeError")    \* float(None)
    ELSE With(float_of_str(fields[cols[3]]), LAMBDA amount : load_amount(fields, cols, amount))

load_row(header, line) ==
    With(<<Split(line), Tuple([k \in 1..3 |-> Column(header, fieldnames[k])], 3)>>,
         LAMBDA fc : load_fields(fc[1], fc[2]))

\* The list of the rows, or the exception of the first row that raises one.
load_rows(rows) ==
    IF \E i \in 1..Len(rows) : rows[i].exc # None
    THEN Raised(rows[CHOOSE i \in 1..Len(rows) :
                        rows[i].exc # None /\ \A j \in 1..(i - 1) : rows[j].exc = None].exc)
    ELSE Returned(Tuple([i \in 1..Len(rows) |-> rows[i].val], Len(rows)))

load_lines(header, lines) ==
    With(Tuple([i \in 1..Len(lines) |-> load_row(header, lines[i])], Len(lines)), load_rows)

\* load_from_csv: no file gives the empty list; else the rows after the
\* header, blank lines skipped.  An exception of a row is not caught.
load_from_csv(f) ==
    IF ~f.exists \/ f.lines = <<>> THEN Returned(<<>>)
    ELSE With(Split(f.lines[1]),
              LAMBDA header : load_lines(header, SelectSeq(Tail(f.lines), LAMBDA l : l # <<>>)))

(***************************************************************************)
(* plot_graph's category_totals: a dict, which keeps its keys in the order *)
(* they were first set; here a sequence of (category, total).              *)
(***************************************************************************)
\* category_totals[category] += amount, or = amount for a new key.
accumulate(category_totals, cat, amount) ==
    IF \E j \in 1..Len(category_totals) : category_totals[j].category = cat
    THEN Tuple([j \in 1..Len(category_totals) |->
                  IF category_totals[j].category = cat
                  THEN [category |-> cat, total |-> float_add(category_totals[j].total, amount)]
                  ELSE category_totals[j]], Len(category_totals))
    ELSE Append(category_totals, [category |-> cat, total |-> amount])

\* category_totals after the loop has taken the first n rows.
RECURSIVE category_totals_after(_, _)
category_totals_after(transaction_list, n) ==
    IF n = 0 THEN <<>>
    ELSE With(<<category_totals_after(transaction_list, n - 1),
                float_of_num(transaction_list[n].Kingaku)>>,
              LAMBDA ta : accumulate(ta[1], transaction_list[n].Kategori, ta[2]))

aggregate(transaction_list) == category_totals_after(transaction_list, Len(transaction_list))

\* save_to_excel's sheet: the header, then a row per record with float(amount).
sheet_rows(transaction_list) ==
    <<fieldnames>>
        \o Tuple([i \in 1..Len(transaction_list) |->
                    <<transaction_list[i].Hizuke, transaction_list[i].Kategori,
                      float_of_num(transaction_list[i].Kingaku)>>], Len(transaction_list))

(***************************************************************************)
(* What the user may type, each text spelled character by character.      *)
(***************************************************************************)
MaxLedger == 2     \* the records a ledger may hold before menu choice 1 is no longer taken
MaxRuns == 2       \* the processes started one after another
MaxEntry == 1      \* the records entered in the specification of the prompts

DateTexts ==
    { <<"2", "0", "2", "5", "/", "0", "1", "/", "0", "1">>,
      <<"2", "0", "2", "4", "/", "0", "2", "/", "2", "9">>,
      <<"2", "0", "2", "5", "/", "0", "2", "/", "2", "9">>,
      <<"1", "9", "0", "0", "/", "0", "2", "/", "2", "9">>,
      <<"2", "0", "2", "5", "/", "0", "4", "/", "3", "1">>,
      <<"2", "0", "2", "5", "/", "1", "3", "/", "0", "1">>,
      <<"2", "0", "2", "5", "/", "1", "/", "5">>,
      <<"2", "0", "2", "5", "-", "0", "1", "-", "0", "1">>,
      <<"2", "5", "/", "0", "1", "/", "0", "1">>,
      <<"2", "0", "2", "5", "/", "0", "1", "/", "0", "1", "1">>,
      <<"a", "b", "c">>,
      <<>> }

CategoryTexts ==
    { <<"1">>, <<"2">>, <<"3">>, <<"4">>, <<"5">>, <<"0">>, <<"6">>, <<"-", "1">>,
      <<" ", "3", " ">>, <<"1", ".", "0">>, <<"x">>, <<>> }

AmountTexts ==
    { <<"1", "0", "0">>,
      <<"1", "2", "3", ".", "9">>,
      <<"-", "4", "5", ".", "7">>,
      <<"-", "0", ".", "5">>,
      <<"9", "0", "0", "7", "1", "9", "9", "2", "5", "4", "7", "4", "0", "9", "9", "2">>,
      <<"9", "0", "0", "7", "1", "9", "9", "2", "5", "4", "7", "4", "0", "9", "9", "3">>,
      <<"0", ".", "9", "9", "9", "9", "9", "9", "9", "9", "9", "9", "9", "9", "9", "9", "9", "9", "9">>,
      <<"i", "n", "f">>,
      <<"n", "a", "n">>,
      <<"a", "b", "c">>,
      <<>> }

MenuTexts == { <<"1">>, <<"2">>, <<"3">>, <<"4">>, <<"5">>, <<"9">>, <<" ", "1">>, <<>> }

\* The texts typed in the specification of the whole program: few enough to
\* follow every ledger of MaxLedger records through MaxRuns runs.
FewDateTexts ==
    { <<"2", "0", "2", "5", "/", "0", "1", "/", "0", "1">>,
      <<"2", "0", "2", "5", "-", "0", "1", "-", "0", "1">> }

FewCategoryTexts == { <<"4">>, <<"0">> }

FewAmountTexts ==
    { <<"-", "4", "5", ".", "7">>,
      <<"1">>,
      <<"9", "0", "0", "7", "1", "9", "9", "2", "5", "4", "7", "4", "0", "9", "9", "2">>,
      <<"i", "n", "f">>,
      <<"a", "b", "c">> }

FewMenuTexts == { <<"1">>, <<"2">>, <<"3">>, <<"4">>, <<"5">>, <<"9">> }

(***************************************************************************)
(* The program.                                                            *)
(***************************************************************************)
Shown(kind, data) == [kind |-> kind, data |-> data]

Typed(prompt, text) == [prompt |-> prompt, text |-> text]

\* transactions = load_from_csv(), then the menu; the first run finds no file.
Init ==
    /\ file = NoFile
    /\ xlsx = NoFile
    /\ \E l \in {load_from_csv(NoFile)} :
        /\ transactions = l.val
        /\ loaded = l.val
    /\ pc = "menu"
    /\ date = <<>>
    /\ category = <<>>
    /\ last = Typed("none", <<>>)
    /\ out = Shown("none", <<>>)
    /\ exited = <<>>
    /\ run = 1

\* choice == "1": add_transaction() begins with input_date's prompt.
ChooseAdd(max) ==
    /\ pc = "menu"
    /\ Len(transactions) < max
    /\ last' = Typed("menu", <<"1">>)
    /\ pc' = "date"
    /\ out' = Shown("none", <<>>)
    /\ UNCHANGED <<transactions, file, xlsx, date, category, loaded, exited, run>>

\* input_date: one pass of its loop.  An accepted text is returned as typed,
\* and input_category prints its list.
input_date(texts) ==
    /\ pc = "date"
    /\ \E text \in texts :
        /\ last' = Typed("date", text)
        /\ IF strptime(text).exc = None
           THEN /\ date' = text
                /\ pc' = "category"
                /\ out' = Shown("categories", categories)
           ELSE /\ out' = Shown("date_format", <<>>)
                /\ UNCHANGED <<date, pc>>
    /\ UNCHANGED <<transactions, file, xlsx, category, loaded, exited, run>>

\* input_category: one pass of its loop.
input_category(texts) ==
    /\ pc = "category"
    /\ \E text \in texts : \E n \in {int_of_str(text)} :
        /\ last' = Typed("category", text)
        /\ IF n.exc # None
           THEN /\ out' = Shown("not_a_number", <<>>)
                /\ UNCHANGED <<category, pc>>
           ELSE IF index_valid(category_index(n.val))
           THEN /\ category' = subscript(categories, category_index(n.val))
                /\ pc' = "amount"
                /\ out' = Shown("none", <<>>)
           ELSE /\ out' = Shown("invalid_number", <<>>)
                /\ UNCHANGED <<category, pc>>
    /\ UNCHANGED <<transactions, file, xlsx, date, loaded, exited, run>>

\* int(float(text)) and the exception it raises, if any.
parse_amount(text) ==
    With(float_of_str(text), LAMBDA f : IF f.exc # None THEN f ELSE int_of_float(f.val))

\* An insertion at the front, which the ledger's property must tell from
\* the code's.
append_front(transaction_list, transaction) == <<transaction>> \o transaction_list

\* transactions.append(transaction)
append(transaction_list, transaction) == Append(transaction_list, transaction)

\* input_amount: one pass of its loop.  It catches ValueError alone; with a
\* value, add_transaction returns the record, and the menu loop appends it,
\* saves the whole ledger and reports.
input_amount(texts) ==
    /\ pc = "amount"
    /\ \E text \in texts : \E amount \in {parse_amount(text)} :
        /\ last' = Typed("amount", text)
        /\ IF amount.exc = "ValueError"
           THEN /\ out' = Shown("amount_not_a_number", <<>>)
                /\ UNCHANGED <<transactions, file, date, category, pc>>
           ELSE IF amount.exc # None
           THEN /\ pc' = "crashed"
                /\ out' = Shown(amount.exc, <<>>)
                /\ UNCHANGED <<transactions, file, date, category>>
           ELSE /\ transactions' = append(transactions, Transaction(date, category, amount.val))
                /\ file' = save_to_csv(transactions', file)
                /\ out' = Shown("registered", <<>>)
                /\ pc' = "menu"
                /\ date' = <<>>
                /\ category' = <<>>
    /\ UNCHANGED <<xlsx, loaded, exited, run>>

\* choice == "2": display_table.
display_table ==
    /\ pc = "menu"
    /\ last' = Typed("menu", <<"2">>)
    /\ out' = IF transactions = <<>> THEN Shown("no_records", <<>>)
              ELSE Shown("table", transactions)
    /\ UNCHANGED <<pc, transactions, file, xlsx, date, category, loaded, exited, run>>

\* choice == "3": plot_graph.
plot_graph ==
    /\ pc = "menu"
    /\ last' = Typed("menu", <<"3">>)
    /\ out' = IF transactions = <<>> THEN Shown("no_records_no_graph", <<>>)
              ELSE Shown("chart", aggregate(transactions))
    /\ UNCHANGED <<pc, transactions, file, xlsx, date, category, loaded, exited, run>>

\* save_to_excel without its try: a failure of wb.save ends the process.
save_to_excel_uncaught ==
    /\ pc = "menu"
    /\ last' = Typed("menu", <<"4">>)
    /\ \E saved \in BOOLEAN :
        IF saved
        THEN /\ xlsx' = FileOf(sheet_rows(transactions))
             /\ out' = Shown("excel_saved", <<Len(transactions)>>)
             /\ pc' = pc
        ELSE /\ out' = Shown("OSError", <<>>)
             /\ pc' = "crashed"
             /\ UNCHANGED xlsx
    /\ UNCHANGED <<transactions, file, date, category, loaded, exited, run>>

\* choice == "4": save_to_excel.  wb.save may fail; any exception is caught
\* and reported.
save_to_excel ==
    /\ pc = "menu"
    /\ last' = Typed("menu", <<"4">>)
    /\ \E saved \in BOOLEAN :
        IF saved
        THEN /\ xlsx' = FileOf(sheet_rows(transactions))
             /\ out' = Shown("excel_saved", <<Len(transactions)>>)
        ELSE /\ out' = Shown("excel_error", <<>>)
             /\ UNCHANGED xlsx
    /\ UNCHANGED <<pc, transactions, file, date, category, loaded, exited, run>>

\* choice == "5": the farewell, save_to_csv, break.
exit_app ==
    /\ pc = "menu"
    /\ last' = Typed("menu", <<"5">>)
    /\ out' = Shown("goodbye", <<>>)
    /\ file' = save_to_csv(transactions, file)
    /\ pc' = "done"
    /\ UNCHANGED <<transactions, xlsx, date, category, loaded, exited, run>>

\* else: any other text, compared as typed.
other_choice(texts) ==
    /\ pc = "menu"
    /\ \E text \in texts \ {<<"1">>, <<"2">>, <<"3">>, <<"4">>, <<"5">>} :
        last' = Typed("menu", text)
    /\ out' = Shown("wrong_choice", <<>>)
    /\ UNCHANGED <<pc, transactions, file, xlsx, date, category, loaded, exited, run>>

\* The program is started again after its process has ended: the module's
\* top level runs load_from_csv, whose exceptions nothing catches.
start_again ==
    /\ pc \in {"done", "crashed"}
    /\ run < MaxRuns
    /\ run' = run + 1
    /\ exited' = transactions
    /\ last' = Typed("none", <<>>)
    /\ date' = <<>>
    /\ category' = <<>>
    /\ \E l \in {load_from_csv(file)} :
        IF l.exc = None
        THEN /\ transactions' = l.val
             /\ loaded' = l.val
             /\ pc' = "menu"
             /\ out' = Shown("none", <<>>)
        ELSE /\ transactions' = <<>>
             /\ loaded' = <<>>
             /\ pc' = "crashed"
             /\ out' = Shown(l.exc, <<>>)
    /\ UNCHANGED <<file, xlsx>>

Next ==
    \/ ChooseAdd(MaxLedger)
    \/ input_date(FewDateTexts)
    \/ input_category(FewCategoryTexts)
    \/ input_amount(FewAmountTexts)
    \/ display_table
    \/ plot_graph
    \/ save_to_excel
    \/ exit_app
    \/ other_choice(FewMenuTexts)
    \/ start_again

Spec == Init /\ [][Next]_vars

\* The prompts alone, with every text: from the menu through one
\* add_transaction after another.
NextEntry ==
    \/ ChooseAdd(MaxEntry)
    \/ input_date(DateTexts)
    \/ input_category(CategoryTexts)
    \/ input_amount(AmountTexts)
    \/ other_choice(MenuTexts)

SpecEntry == Init /\ [][NextEntry]_vars

(***************************************************************************)
(* What the model leaves out never acts: no field of a ledger needs csv's  *)
(* quoting, and every amount of a ledger prints in positional notation.    *)
(***************************************************************************)
FieldsPlain ==
    \A i \in 1..Len(transactions) :
        \A c \in Range(transactions[i].Hizuke) \cup Range(transactions[i].Kategori) :
            c \notin {",", "\"", "\n", "\r"}

AmountsPrintable ==
    \A i \in 1..Len(transactions) :
        /\ IsIntegral(transactions[i].Kingaku)
        /\ Len(transactions[i].Kingaku.man) <= ReprMaxDigits

(***************************************************************************)
(* The properties of the specification, by the number of the claim.        *)
(***************************************************************************)
SameRecord(a, b) ==
    /\ a.Hizuke = b.Hizuke
    /\ a.Kategori = b.Kategori
    /\ NumEq(a.Kingaku, b.Kingaku)

SameRecords(x, y) ==
    /\ Len(x) = Len(y)
    /\ \A i \in 1..Len(x) : SameRecord(x[i], y[i])

\* The records read back from f are the records of list, in order.
Holds(f, list) ==
    /\ f.exists
    /\ With(load_from_csv(f), LAMBDA l : l.exc = None /\ SameRecords(l.val, list))

\* C1: whenever the loop is at the menu and a record has been added in this
\* run, the backing file exists and its records are the ledger's, in content
\* and in order.
C1_FileHoldsLedger ==
    (pc = "menu" /\ Len(transactions) > Len(loaded)) => Holds(file, transactions)

\* A record has just been added to a ledger that was loaded with one record.
C1_Witness ==
    /\ pc = "menu" /\ out.kind = "registered"
    /\ run = 2 /\ Len(loaded) = 1 /\ Len(transactions) = 2

\* A file that holds something else than a ledger.
OtherFile == FileOf(<<<<"x", ",", "y">>, <<"1", ",", "2">>>>)

\* C2: saving a non-empty ledger and loading the file gives the ledger back,
\* date, category and amount (as a number) of every record, in order,
\* whatever the file held before; and a run started after another loads the
\* ledger that run ended with.
C2_RoundTrip ==
    /\ transactions # <<>> =>
          /\ Holds(save_to_csv(transactions, file), transactions)
          /\ \A old \in {NoFile, OtherFile} :
                save_to_csv(transactions, old) = save_to_csv(transactions, file)
    /\ run > 1 => SameRecords(loaded, exited)

\* The second run has loaded the two records the first run entered.
C2_Witness ==
    /\ run = 2 /\ pc = "menu" /\ Len(exited) = 2 /\ Len(loaded) = 2
    /\ exited[1].Kingaku.t = "int" /\ loaded[1].Kingaku.t = "float"

\* C3: a text entered at the date, category or amount prompt either is
\* accepted or is answered by a message and the same prompt again; none ends
\* the process.
C3_InputErrorsNotFatal ==
    /\ last.prompt = "date" =>
          (pc = "category" \/ (pc = "date" /\ out.kind = "date_format"))
    /\ last.prompt = "category" =>
          (pc = "amount" \/ (pc = "category" /\ out.kind \in {"not_a_number", "invalid_number"}))
    /\ last.prompt = "amount" =>
          (pc = "menu" \/ (pc = "amount" /\ out.kind = "amount_not_a_number"))

\* The days of a month of the calendar.
CalendarDays(y, m) ==
    IF m \in {4, 6, 9, 11} THEN 30
    ELSE IF m # 2 THEN 31
    ELSE IF y % 400 = 0 \/ (y % 4 = 0 /\ y % 100 # 0) THEN 29
    ELSE 28

TwoDigits(t, p) == 10 * DigitVal(t[p]) + DigitVal(t[p + 1])

\* t reads YYYY/MM/DD, zero-padded, and names a day of the calendar.
IsPaddedRealDate(t) ==
    /\ Len(t) = 10
    /\ \A i \in {1, 2, 3, 4, 6, 7, 9, 10} : IsDigit(t[i])
    /\ t[5] = "/" /\ t[8] = "/"
    /\ 100 * TwoDigits(t, 1) + TwoDigits(t, 3) >= 1
    /\ TwoDigits(t, 6) \in 1..12
    /\ TwoDigits(t, 9) \in 1..CalendarDays(100 * TwoDigits(t, 1) + TwoDigits(t, 3), TwoDigits(t, 6))

\* C4: a text entered at the date prompt is accepted if and only if it reads
\* YYYY/MM/DD, zero-padded, and names a real day; any other text is answered
\* by the format message and the prompt again.
C4_AcceptedIffPaddedDate ==
    last.prompt = "date" =>
        IF IsPaddedRealDate(last.text)
        THEN pc = "category" /\ date = last.text
        ELSE pc = "date" /\ out.kind = "date_format"

\* The text of the number i, as str(i) prints it.
NumberText(i) == DigitText(NatDigits(i))

\* The number a text of digits, blanks and signs spells; -1 if it spells none.
SpelledNumber(t) ==
    IF \E i \in 0..9 : t = NumberText(i) THEN CHOOSE i \in 0..9 : t = NumberText(i)
    ELSE IF \E i \in 0..9 : t = <<" ">> \o NumberText(i) \o <<" ">>
    THEN CHOOSE i \in 0..9 : t = <<" ">> \o NumberText(i) \o <<" ">>
    ELSE -1

\* C5: at the category prompt the number i of 1..len(categories) selects
\* categories[i-1]; a number outside that range and a text that is no integer
\* select nothing, and the prompt is repeated; so every record's category is
\* one of the five labels.
C5_CategorySelection ==
    /\ last.prompt = "category" =>
          IF SpelledNumber(last.text) \in 1..Len(categories)
          THEN pc = "amount" /\ category = categories[SpelledNumber(last.text)]
          ELSE pc = "category" /\ category = <<>>
                 /\ out.kind \in {"not_a_number", "invalid_number"}
    /\ \A i \in 1..Len(transactions) : transactions[i].Kategori \in Range(categories)

\* The fourth label has been selected by its number.
C5_Witness ==
    /\ last = Typed("category", <<"4">>)
    /\ pc = "amount" /\ category = categories[4]

\* A sign, then digits with at most one point among them.
IsPlainDecimal(t) ==
    LET body == IF t # <<>> /\ Head(t) \in {"+", "-"} THEN Tail(t) ELSE t
    IN  /\ \E i \in 1..Len(body) : IsDigit(body[i])
        /\ \A i \in 1..Len(body) : IsDigit(body[i]) \/ body[i] = "."
        /\ Cardinality({i \in 1..Len(body) : body[i] = "."}) <= 1

\* The integer left when the digits after the point are dropped.
TruncatedDecimal(t) ==
    LET body == IF t # <<>> /\ Head(t) \in {"+", "-"} THEN Tail(t) ELSE t
        whole == SelectSeq(SubSeq(body, 1, IF "." \in Range(body)
                                           THEN (CHOOSE i \in 1..Len(body) : body[i] = ".") - 1
                                           ELSE Len(body)),
                           IsDigit)
    IN  PyInt(t # <<>> /\ Head(t) = "-", Digits(whole))

\* C6: a text that is a decimal number, with or without a sign or a
\* fractional part, is stored in the new record as that number truncated
\* toward zero; a text with no digit in it fails as not a number, and the
\* prompt is repeated.
C6_AmountTruncated ==
    last.prompt = "amount" =>
        IF IsPlainDecimal(last.text)
        THEN /\ pc = "menu" /\ transactions # <<>>
             /\ Last(transactions).Kingaku = TruncatedDecimal(last.text)
        ELSE (\A i \in 1..Len(last.text) : ~IsDigit(last.text[i])) =>
                 (pc = "amount" /\ out.kind = "amount_not_a_number")

\* The sum of two integers, each a sign and a magnitude.
SignedSum(a, b) ==
    IF a.neg = b.neg THEN [neg |-> a.neg, man |-> Add(a.man, b.man)]
    ELSE IF Less(a.man, b.man) THEN [neg |-> b.neg, man |-> Sub(b.man, a.man)]
    ELSE [neg |-> a.neg /\ a.man # b.man, man |-> Sub(a.man, b.man)]

\* The sum of the amounts of the records of category cat among the first n.
RECURSIVE SumOfCategory(_, _, _)
SumOfCategory(list, cat, n) ==
    IF n = 0 THEN [neg |-> FALSE, man |-> <<0>>]
    ELSE IF list[n].Kategori # cat THEN SumOfCategory(list, cat, n - 1)
    ELSE SignedSum(SumOfCategory(list, cat, n - 1),
                   [neg |-> list[n].Kingaku.neg, man |-> list[n].Kingaku.man])

\* The positions of the records that are the first of their category.
FirstOfCategory(list) ==
    {i \in 1..Len(list) : \A j \in 1..(i - 1) : list[j].Kategori # list[i].Kategori}

C8_EndsByChoiceFive ==
    pc \in {"done", "crashed"} =>
        /\ last = Typed("menu", <<"5">>)
        /\ file = FileOf(csv_lines(transactions))

\* C9: a menu choice other than 1 and 5 leaves the ledger and the backing
\* file as they are and is followed by the menu again, also when the export
\* fails.
C9_OtherChoicesKeepLedger ==
    [][(pc = "menu" /\ last'.prompt = "menu" /\ last'.text \notin {<<"1">>, <<"5">>}) =>
          (transactions' = transactions /\ file' = file /\ pc' = "menu")]_vars

\* An export of a ledger with records has failed, and the menu is back.
C9_Witness ==
    /\ last = Typed("menu", <<"4">>) /\ out.kind = "excel_error"
    /\ pc = "menu" /\ transactions # <<>>

\* C10: within a run every step leaves the ledger as it is or adds one record
\* at its end, and only the amount prompt's step adds one; so an earlier
\* ledger is a prefix of every later one.
C10_AppendOnly ==
    [][run' = run =>
          /\ IsPrefix(transactions, transactions')
          /\ Len(transactions') <= Len(transactions) + 1
          /\ transactions' # transactions => last'.prompt = "amount"]_vars

\* Two records have been added, one after the other, in one run.
C10_Witness ==
    /\ Len(transactions) = Len(loaded) + 2
    /\ transactions[1] # transactions[2]

=============================================================================
